---------------------------- MODULE Spec2Model ----------------------------
(***************************************************************************)
(* Model of piellardj/waterfall-webgl2: the particle system (Particles and *)
(* its transform-feedback update shader), the obstacle map (ObstacleMap    *)
(* and its raster shaders), the pointer/UI handlers of Controls and the    *)
(* frame loop of main().                                                   *)
(*                                                                         *)
(* Numbers.  The program computes in floating point; the model computes in *)
(* fixed point and rounds to nearest after every operation that rounds in  *)
(* the program:                                                            *)
(*   positions            1/Scale world unit (one world unit = one pixel)  *)
(*   velocities           1/Scale world unit per second                    *)
(*   time steps           milliseconds                                     *)
(*   decoded normals      1/255 (the step of an 8 bit channel)             *)
(*   normalized normals   1/NormDen                                        *)
(*   random()             1/RandDen                                        *)
(*   pointer positions    1/100 pixel (mousePos = m / (100 * size))        *)
(* Properties that the program meets "within floating tolerance" are       *)
(* stated with the tolerance Tol (in 1/Scale units).                       *)
(***************************************************************************)
EXTENDS Integers, Sequences, FiniteSets, TLC

\* gl.drawingBufferWidth / gl.drawingBufferHeight: the canvas, in pixels.
Width == 8
Height == 6
\* Fixed-point resolution of positions and velocities.
Scale == 100
\* Rounding tolerance of the fixed-point arithmetic, in 1/Scale units.
Tol == 2
\* Frames and UI events explored.
MaxFrames == 2
MaxEvents == 2
\* Steps explored from an arbitrary particle state.
MaxShaderSteps == 1

NormDen == 1000
RandDen == 100

Min(a, b) == IF a < b THEN a ELSE b
Max(a, b) == IF a > b THEN a ELSE b
Abs(a) == IF a < 0 THEN -a ELSE a

\* Division rounded to nearest (b > 0), as a floating-point division rounds.
RDiv(a, b) == (2 * a + b) \div (2 * b)

RECURSIVE SqrtIter(_, _)
SqrtIter(n, r) ==
  LET r2 == (r + n \div r) \div 2
  IN  IF r2 >= r THEN r ELSE SqrtIter(n, r2)

\* Floor of the square root (Newton's iteration from above).
ISqrt(n) == IF n <= 0 THEN 0 ELSE SqrtIter(n, Min(n, 46340))

\* Square root rounded to nearest.
SqrtR(n) == LET r == ISqrt(n) IN IF n - r * r > r THEN r + 1 ELSE r

Dot(a, b) == a[1] * b[1] + a[2] * b[2]

\* GLSL length(v); components beyond the 32-bit range of a square are
\* scaled down first.
Length(v) ==
  LET m == Max(Abs(v[1]), Abs(v[2]))
      k == m \div 30000 + 1
  IN  k * SqrtR((Abs(v[1]) \div k) * (Abs(v[1]) \div k)
                + (Abs(v[2]) \div k) * (Abs(v[2]) \div k))

-----------------------------------------------------------------------------
(* Particles: constants of the constructor, substituted into the shaders.   *)

\* this._maxSpeed = 0.5 * Math.min(width, height)
MAX_SPEED == (Scale * Min(Width, Height)) \div 2
\* this._posBandwidth = 1.2 * Math.max(width, height)
POS_BANDWIDTH == RDiv(12 * Max(Width, Height) * Scale, 10)
\* this._worldSize
WORLD_SIZE == <<Width * Scale, Height * Scale>>

\* const sizes = [16*16, 32*32, ...]: the menu of particle counts, scaled
\* down to counts a model checker can enumerate.
Sizes == <<1, 2>>

\* float random(vec2 co): fract(sin(dot(co, vec2(12.9898,78.233))) * 43758.5453).
\* The sine hash has no integer form; the model keeps its contract (a
\* deterministic function of co with values in [0,1), here k/RandDen) with an
\* integer hash built on the same multipliers.
random(co) ==
  LET d == (co[1] % 10007) * 12990 + (co[2] % 10007) * 78233
  IN  ((d % 10007) * 43758) % RandDen

\* The texel coordinate and the weight of its right/upper neighbour for a
\* world coordinate x along an axis of n texels (GL_LINEAR), in 1/(2*Scale).
TexCoord(x, n) == 2 * x + n * Scale - Scale

\* GL_CLAMP_TO_EDGE
ClampIdx(i, n) == IF i < 0 THEN 0 ELSE IF i > n - 1 THEN n - 1 ELSE i

\* texture(tex, pos / WORLD_SIZE + 0.5) with GL_LINEAR filtering and
\* GL_CLAMP_TO_EDGE: channel c of the bilinear mix of the four nearest
\* texels, as a numerator over 255 * (2*Scale)^2.
SampleChannel(tex, pos, c) ==
  LET tx == TexCoord(pos[1], Width)
      ty == TexCoord(pos[2], Height)
      i0 == tx \div (2 * Scale)
      j0 == ty \div (2 * Scale)
      fx == tx % (2 * Scale)
      fy == ty % (2 * Scale)
      a0 == ClampIdx(i0, Width)
      a1 == ClampIdx(i0 + 1, Width)
      b0 == ClampIdx(j0, Height)
      b1 == ClampIdx(j0 + 1, Height)
  IN  (2 * Scale - fx) * (2 * Scale - fy) * tex[b0 * Width + a0 + 1][c]
      + fx * (2 * Scale - fy) * tex[b0 * Width + a1 + 1][c]
      + (2 * Scale - fx) * fy * tex[b1 * Width + a0 + 1][c]
      + fx * fy * tex[b1 * Width + a1 + 1][c]

\* vec2 decodeObstacle(vec4 texel) { return 2.0 * texel.rg - 1.0; } applied to
\* the sampled texel; the result is in 1/255.
decodeObstacle(tex, pos) ==
  LET q == 4 * Scale * Scale
  IN  <<RDiv(2 * SampleChannel(tex, pos, 1), q) - 255,
        RDiv(2 * SampleChannel(tex, pos, 2), q) - 255>>

\* dot(obstacleNormal, obstacleNormal) > 0.1
IsObstacle(n) == 10 * Dot(n, n) > 255 * 255

\* normalize(obstacleNormal), in 1/NormDen.
normalize(n) ==
  LET len == SqrtR(10000 * Dot(n, n))
  IN  <<RDiv(n[1] * NormDen * 100, len), RDiv(n[2] * NormDen * 100, len)>>

\* reflect(I, N) = I - 2.0 * dot(N, I) * N
reflect(v, N) ==
  LET s == RDiv(2 * Dot(N, v), NormDen)
  IN  <<v[1] - RDiv(s * N[1], NormDen), v[2] - RDiv(s * N[2], NormDen)>>

\* v *= min(1.0, (num/den) * MAX_SPEED / length(v))
LimitSpeed(v, num, den) ==
  LET len == Length(v)
  IN  IF den * len <= num * MAX_SPEED
        THEN v
        ELSE <<RDiv(v[1] * num * MAX_SPEED, den * len),
               RDiv(v[2] * num * MAX_SPEED, den * len)>>

\* if (pos.y < -0.5 * WORLD_SIZE.y)
Reinjected(pos) == 2 * pos[2] < -WORLD_SIZE[2]

\* vec2 nextVel = vel + uDt * acc; and the reinjection branch of lines 241-244.
VelStart(pos, vel, acc, dt) ==
  IF Reinjected(pos)
    THEN <<RDiv(MAX_SPEED * (2 * random(<<100 * pos[1], 100 * pos[2]>>) - RandDen),
                10 * RandDen),
           RDiv(random(<<pos[1] + vel[1], pos[2] + vel[2]>>) * Scale, RandDen)>>
    ELSE <<vel[1] + RDiv(dt * acc[1] * Scale, 1000),
           vel[2] + RDiv(dt * acc[2] * Scale, 1000)>>

\* Faulty variant of the collision stage: the bounce reflects the velocity
\* but does not rescale it to a tenth of the maximum speed.
CollideNoRescale(v, n) ==
  IF IsObstacle(n) /\ Dot(v, n) < 0
    THEN reflect(v, normalize(n))
    ELSE v

\* The collision stage, lines 246-252: nextVel after the bounce.
Collide(v, n) ==
  IF IsObstacle(n) /\ Dot(v, n) < 0
    THEN LimitSpeed(reflect(v, normalize(n)), 1, 10)
    ELSE v

\* Faulty variant of the global clamp: the velocity is passed through.
ClampSpeedOff(v) == v

\* nextVel *= min(1.0, MAX_SPEED / length(nextVel));
ClampSpeed(v) == LimitSpeed(v, 1, 1)

\* aNextVel of main(), lines 240-254.
NextVel(tex, pos, vel, acc, dt) ==
  ClampSpeed(Collide(VelStart(pos, vel, acc, dt), decodeObstacle(tex, pos)))

\* vec2 nextPos = pos + uDt * nextVel; nextPos += uDt * obstacleNormal;
Moved(tex, pos, nv, dt) ==
  LET p == <<pos[1] + RDiv(dt * nv[1], 1000), pos[2] + RDiv(dt * nv[2], 1000)>>
      n == decodeObstacle(tex, p)
  IN  <<p[1] + RDiv(dt * n[1] * Scale, 255 * 1000),
        p[2] + RDiv(dt * n[2] * Scale, 255 * 1000)>>

\* The reinjection branch of lines 262-265.
Respawn(pos, vel, p) ==
  IF Reinjected(pos)
    THEN <<RDiv((2 * random(<<pos[1] + vel[1], pos[2] + vel[2]>>) - RandDen)
                  * WORLD_SIZE[1], 2 * RandDen),
           p[2] + WORLD_SIZE[2]
             + RDiv(random(pos) * (POS_BANDWIDTH - WORLD_SIZE[2]), 2 * RandDen)>>
    ELSE p

\* Faulty variant of the horizontal wrap: the position is passed through.
WrapOff(p) == p

\* The horizontal wrap of lines 266-269.
Wrap(p) ==
  IF 2 * p[1] < -POS_BANDWIDTH THEN <<p[1] + POS_BANDWIDTH, p[2]>>
  ELSE IF 2 * p[1] > POS_BANDWIDTH THEN <<p[1] - POS_BANDWIDTH, p[2]>>
  ELSE p

\* aNextPos of main(), lines 256-272.
NextPos(tex, pos, vel, nv, dt) == Wrap(Respawn(pos, vel, Moved(tex, pos, nv, dt)))


-----------------------------------------------------------------------------
(* ObstacleMap: the two RG8 textures and the raster shaders.                *)

Pixels == (0 .. Width - 1) \X (0 .. Height - 1)

\* Textures are stored row by row: the texel of pixel <<i, j>> is tex[j * Width + i + 1].
PixelAt(k) == <<(k - 1) % Width, (k - 1) \div Width>>
Texel(tex, p) == tex[p[2] * Width + p[1] + 1]

\* ObstacleMap.initTexture: every texel is [127, 127].
initTexture == [k \in 1 .. Width * Height |-> <<127, 127>>]

\* fromCenter of both shaders at the centre of pixel p, for the pointer at m
\* (1/100 pixel): 2 * (sampleCoords - uMousePos) / uBrushSize, as a numerator
\* over BrushDen(b) for a brush of b pixels (uBrushSize = [b/width, b/height]).
fromCenter(p, m) == <<100 * (2 * p[1] + 1) - 2 * m[1], 100 * (2 * p[2] + 1) - 2 * m[2]>>

BrushDen(b) == 100 * b

\* fragColor = vec4(0.5 * normalize(fromCenter) + 0.5, 0, 1) stored in an RG8
\* texel: each channel is round(255 * (0.5 * n + 0.5)).  normalize of the
\* zero vector is undefined in GLSL; no pointer position of the model lies
\* on a pixel centre, so the case does not arise.
EncodeNormal(f) ==
  LET len == SqrtR(64 * Dot(f, f))
  IN  <<RDiv(255 * (len + 8 * f[1]), 2 * len), RDiv(255 * (len + 8 * f[2]), 2 * len)>>

\* The RG8 texel written for the output vec4(0.5 * n + 0.5, 0, 1), n in
\* 1/NormDen, with the fraction dropped instead of rounded.
EncodeTruncated(n) ==
  <<(255 * (NormDen + n[1])) \div (2 * NormDen), (255 * (NormDen + n[2])) \div (2 * NormDen)>>

\* The RG8 texel written for the output vec4(0.5 * n + 0.5, 0, 1), n in
\* 1/NormDen: each channel is round(255 * (0.5 * n + 0.5)).
Encode(n) ==
  <<RDiv(255 * (NormDen + n[1]), 2 * NormDen), RDiv(255 * (NormDen + n[2]), 2 * NormDen)>>

\* decodeObstacle of a stored texel, in 1/255: 2 * (byte / 255) - 1.
Decoded(texel) == <<2 * texel[1] - 255, 2 * texel[2] - 255>>

\* The rasterizer's coverage of the brush quad of addStaticVertStr: a pixel
\* centre strictly inside the quad is covered; one exactly on an edge of the
\* quad is covered or not by the implementation's fill convention (rule =
\* TRUE: the left and top edges own their pixels, FALSE: the right and bottom
\* edges do).
QuadCovers(f, d, rule) ==
  /\ Abs(f[1]) <= d
  /\ Abs(f[2]) <= d
  /\ (f[1] = -d) => rule
  /\ (f[1] = d) => ~rule
  /\ (f[2] = d) => rule
  /\ (f[2] = -d) => ~rule

\* Faulty variant of the static pass: no fragment of the quad is discarded.
AddStaticRasterNoDiscard(tex, m, b, rule) ==
  [k \in 1 .. Width * Height |->
     LET f == fromCenter(PixelAt(k), m)
     IN  IF QuadCovers(f, BrushDen(b), rule) THEN EncodeNormal(f) ELSE tex[k]]

\* addStaticFragStr over the brush quad, drawn into the static texture.
AddStaticRaster(tex, m, b, rule) ==
  [k \in 1 .. Width * Height |->
     LET f == fromCenter(PixelAt(k), m)
     IN  IF QuadCovers(f, BrushDen(b), rule) /\ ~(Dot(f, f) > BrushDen(b) * BrushDen(b))
           THEN EncodeNormal(f)
           ELSE tex[k]]

\* Faulty variant of the mobile pass: outside the disc the field is cleared
\* instead of copied from the static texture.
AddMobileRasterOverEmpty(static, m, b) ==
  [k \in 1 .. Width * Height |->
     LET f == fromCenter(PixelAt(k), m)
     IN  IF Dot(f, f) < BrushDen(b) * BrushDen(b)
           THEN EncodeNormal(f)
           ELSE <<127, 127>>]

\* addMobileFragStr over the full-screen quad, drawn into the queryable texture.
AddMobileRaster(static, m, b) ==
  [k \in 1 .. Width * Height |->
     LET f == fromCenter(PixelAt(k), m)
     IN  IF Dot(f, f) < BrushDen(b) * BrushDen(b)
           THEN EncodeNormal(f)
           ELSE static[k]]

\* The strokes of the ObstacleMap constructor: brush (pixels) and centre.
ConstructorStrokes ==
  << <<100, <<50 * Width, 80 * Height>> >>,
     <<50, <<63 * Width, 60 * Height>> >>,
     <<30, <<20 * Width, 50 * Height>> >> >>

\* The values the UI hands to the core.  Pointer positions are in 1/100
\* pixel; the last one lies on a row of pixel centres, so that pixel centres
\* fall exactly on the rim of a brush of odd size.
PointerPositions == {<<200, 300>>, <<500, 200>>, <<200, 350>>}
BrushValues == {2, 3}
GravityValues == {0, 10000}
FrameDeltas == {16, 250}
DtValues == {0, 16, 100, 300}

\* Draws of Math.random() for one reset, in 1/RandDen: four per particle;
\* reset(gl, Sizes[k]) is explored with the draws MathRandom[k].
MathRandom ==
  << <<40, 1, 50, 0>>,
     <<0, 50, 99, 50,   90, 1, 0, 0>> >>

-----------------------------------------------------------------------------
(* Fluidify: blur kernel and display shader (part_000).                     *)
(* Alpha and colour channels are bytes (1/255); the threshold is in 1/100.  *)

\* Largest kernel size explored (the blur slider's value).
MaxKernel == 5
\* Fixed-point resolution of Math.exp and number of series terms.
ExpDen == 1000
ExpTerms == 24
\* Fixed-point resolution of the kernel weights.
WeightDen == 1000000

KernelSizes == 1..MaxKernel
ThresholdValues == {0, 20, 50, 100}
\* Blurred alpha of the shaded texel, and of its right and upper neighbours.
AlphaValues == {0, 51, 127, 128, 255}
NeighbourAlphas == {0, 255}
TexelColor == <<51, 102, 204>>

RECURSIVE ExpSeries(_, _, _, _)
\* Sum of the Taylor series of exp(t / 1000) from term number n on, in
\* 1/ExpDen.
ExpSeries(t, n, term, acc) ==
  IF n > ExpTerms \/ term = 0 THEN acc
  ELSE ExpSeries(t, n + 1, RDiv(term * t, 1000 * n), acc + term)

\* kernelFunction(x) = Math.exp(-4*x*x) at x = 2*i/kernelSize - 1, in
\* 1/ExpDen.
kernelFunction(i, kernelSize) ==
  LET t == RDiv(4000 * (2 * i - kernelSize) * (2 * i - kernelSize),
                kernelSize * kernelSize)
  IN  RDiv(ExpDen * ExpDen, ExpSeries(t, 1, ExpDen, 0))

RECURSIVE SumSeq(_)
SumSeq(s) == IF s = <<>> THEN 0 ELSE Head(s) + SumSeq(Tail(s))

\* The kernel before the division by total.
KernelRaw(kernelSize) ==
  [i \in 1..kernelSize |-> RDiv(kernelFunction(i - 1, kernelSize) * WeightDen, ExpDen)]

\* The array setKernelSize stores in uKernel, in 1/WeightDen.
Kernel(kernelSize) ==
  LET kernel == [i \in 1..kernelSize |-> kernelFunction(i - 1, kernelSize)]
      total  == SumSeq(kernel)
  IN  [i \in 1..kernelSize |-> RDiv(kernel[i] * WeightDen, total)]

\* GLSL step(edge, x) with edge in 1/100 and x a byte.
step(edge, x) == IF 100 * x < 255 * edge THEN 0 ELSE 1

\* level = visible * texel.a
Level(threshold, a) == step(threshold, a) * a

\* cross(vec3(1/512, 0, dFdx(level)), vec3(0, 1/512, dFdy(level))) before
\* normalisation, scaled by 512 * 512 * 255 / 16 (255 / 16 taken as 16).
SurfaceNormal(quad, threshold) ==
  LET level == Level(threshold, quad[1][4])
      dx    == Level(threshold, quad[2]) - level
      dy    == Level(threshold, quad[3]) - level
  IN  <<-32 * dx, -32 * dy, 16>>

Length3(v) == SqrtR(v[1] * v[1] + v[2] * v[2] + v[3] * v[3])

\* smoothstep(0.99, 1.0, dot(normal, lightDir)) in 1/1000, with
\* lightDir = (0.73, 0.73, -0.73).
specularFactor(n) ==
  LET d == RDiv(7300 * (n[1] + n[2] - n[3]), Length3(n)) - 9900
      t == Max(0, Min(100, d))
  IN  RDiv(t * t * (300 - 2 * t), 1000)

\* pow(x, 0.1) for x in 1/1000, as a byte: the fifth root to 1/64, then the
\* square root.
Pow01(x) ==
  LET target == x * 1073741
      fifth  == CHOOSE r \in 0..64 : \A q \in 0..64 :
                  Abs(r * r * r * r * r - target) <= Abs(q * q * q * q * q - target)
  IN  SqrtR(RDiv(fifth * 255 * 255, 64))

\* vec4(0.5 * normal + 0.5, 1) as bytes.
NormalColor(n) ==
  LET len == Length3(n)
  IN  <<RDiv(255 * (len + n[1]), 2 * len), RDiv(255 * (len + n[2]), 2 * len),
        RDiv(255 * (len + n[3]), 2 * len), 255>>

ShadedColor(quad, threshold, showNormals) ==
  IF showNormals THEN NormalColor(SurfaceNormal(quad, threshold)) ELSE quad[1]

Specular(quad, threshold, specular) ==
  LET s == Pow01(specularFactor(SurfaceNormal(quad, threshold)))
  IN  IF specular THEN <<s, s, s, 0>> ELSE <<0, 0, 0, 0>>

\* displayFragStr main with a strict comparison in place of step().
displayFragStrict(quad, threshold, showNormals, specular) ==
  LET visible == IF 100 * quad[1][4] > 255 * threshold THEN 1 ELSE 0
      color   == ShadedColor(quad, threshold, showNormals)
      spec    == Specular(quad, threshold, specular)
  IN  [c \in 1..4 |-> visible * (color[c] + spec[c])]

\* displayFragStr main: fragColor = visible * (color + specular), unclamped
\* bytes.
displayFrag(quad, threshold, showNormals, specular) ==
  LET visible == step(threshold, quad[1][4])
      color   == ShadedColor(quad, threshold, showNormals)
      spec    == Specular(quad, threshold, specular)
  IN  [c \in 1..4 |-> visible * (color[c] + spec[c])]

-----------------------------------------------------------------------------
(* Shader creation (controls.js).                                           *)

\* createProgram: attachShader of a null shader raises a TypeError where the
\* binding checks its argument (attachThrows) and records a GL error where it
\* does not; a program lacking a shader does not link.  A failed link is
\* logged and the function returns undefined.
createProgram(vertexShader, fragmentShader, linkStatus, attachThrows) ==
  IF (~vertexShader \/ ~fragmentShader) /\ attachThrows
    THEN [linked |-> FALSE, logged |-> 0, result |-> "TypeError"]
    ELSE IF vertexShader /\ fragmentShader /\ linkStatus
      THEN [linked |-> TRUE, logged |-> 0, result |-> "program"]
      ELSE [linked |-> FALSE, logged |-> 1, result |-> "undefined"]

\* Shader.fromString: createShader logs the info log of a source that does
\* not compile and returns null; the result of createProgram is extended
\* with bindUniforms, which raises a TypeError when it is undefined.
ShaderFromString(vertexOk, fragmentOk, linkStatus, attachThrows) ==
  LET program == createProgram(vertexOk, fragmentOk, linkStatus, attachThrows)
  IN  [vertex |-> vertexOk, fragment |-> fragmentOk, linked |-> program.linked,
       logged |-> (IF vertexOk THEN 0 ELSE 1) + (IF fragmentOk THEN 0 ELSE 1)
                    + program.logged,
       result |-> IF program.result = "program" THEN "program" ELSE "TypeError"]

-----------------------------------------------------------------------------
(* Controls.showFluidSection (controls.js).  A className is the sequence of *)
(* its space-separated parts: the text before the first space (possibly     *)
(* empty), then every token that follows a space.                           *)

\* The class attribute of the section in the page's markup.
ClassNames == {<<"">>, <<"controls-section">>, <<"controls-section", "hidden">>}

\* className.replace(/ hidden/g, ""): every token "hidden" that follows a
\* space is removed.
StripHidden(cls) ==
  LET keep == {i \in 1 .. Len(cls) : i = 1 \/ cls[i] # "hidden"}
      rank(i) == Cardinality({j \in keep : j <= i})
  IN  [r \in 1 .. Cardinality(keep) |-> cls[CHOOSE i \in keep : rank(i) = r]]

\* Number of times the class marker "hidden" occurs.
HiddenCount(cls) == Cardinality({i \in 1 .. Len(cls) : cls[i] = "hidden"})

\* Faulty variant of showFluidSection: the marker is appended without the
\* earlier ones being removed.
showFluidSectionAppends(cls, fluid) ==
  IF fluid THEN StripHidden(cls) ELSE Append(cls, "hidden")

\* showFluidSection(fluid)
showFluidSection(cls, fluid) ==
  IF fluid THEN StripHidden(cls) ELSE Append(StripHidden(cls), "hidden")

-----------------------------------------------------------------------------
(* State.                                                                   *)

VARIABLES
  nbParts,          \* Particles._nbParts
  posVBO,           \* Particles._posVBO: generation index -> positions
  velVBO,           \* Particles._velVBO: generation index -> velocities
  currIndex,        \* Particles._currIndex
  uAcceleration,    \* _updateShader.u["uAcceleration"].value
  uDt,              \* _updateShader.u["uDt"].value, in milliseconds
  staticTexture,    \* ObstacleMap._staticTexture
  texture,          \* ObstacleMap._texture, the queryable field
  uBrushSize,       \* u["uBrushSize"].value of both raster shaders, in pixels
  uMousePosStatic,  \* _addStaticShader.u["uMousePos"].value
  uMousePosMobile,  \* _addMobileShader.u["uMousePos"].value
  fillRule,         \* the rasterizer's fill convention (fixed by the platform)
  isMouseDown,      \* bindMouse: isMouseDown
  lastUpdate,       \* main: lastUpdate, in milliseconds
  fluidMode,        \* main: fluidMode
  frameLog,         \* the GL passes of the last frame, in order
  lastOp,           \* the operation that led to this state
  frames,           \* frames run so far
  events,           \* UI events handled so far
  uThreshold,       \* Fluidify._displayShader.u["uThreshold"].value, in 1/100
  uShowNormals,     \* Fluidify._displayShader.u["uShowNormals"].value
  uSpecular,        \* Fluidify._displayShader.u["uSpecular"].value
  uKernel,          \* Fluidify._blurShader.u["uKernel[0]"].value, in 1/WeightDen
  blurredQuad,      \* a texel of _blurredTex and the alpha of its right and upper neighbours
  fragColor,        \* the display shader's output for that texel, in 1/255
  roundTrip,        \* a normal (1/NormDen), the RG8 texel it is written as, and its decoding (1/255)
  shaderCall,       \* the last Shader.fromString call: what compiled and linked, lines logged, outcome
  className,        \* className of the fluid-controllers section: the text before the first space, then the tokens that follow a space
  twin              \* a second Particles object, constructed with _currIndex = 1, that receives the same reset and update calls

vars ==
  <<nbParts, posVBO, velVBO, currIndex, uAcceleration, uDt, staticTexture, texture,
    uBrushSize, uMousePosStatic, uMousePosMobile, fillRule, isMouseDown, lastUpdate,
    fluidMode, frameLog, lastOp, frames, events,
    uThreshold, uShowNormals, uSpecular, uKernel, blurredQuad, fragColor, roundTrip,
    shaderCall, className, twin>>

particleVars == <<nbParts, posVBO, velVBO, currIndex, uDt, twin>>
obstacleVars == <<staticTexture, texture, uMousePosStatic, uMousePosMobile>>
fluidVars == <<uThreshold, uShowNormals, uSpecular, uKernel, blurredQuad, fragColor>>

\* The Fluidify constructor: setKernelSize(gl, 9), threshold 0.5, normals
\* off, specular on; its textures are allocated zero-filled.
FluidifyConstructor ==
  /\ uKernel = Kernel(9)
  /\ uThreshold = 50
  /\ uShowNormals = FALSE
  /\ uSpecular = TRUE
  /\ blurredQuad = <<<<0, 0, 0, 0>>, 0, 0>>
  /\ fragColor = <<0, 0, 0, 0>>

\* this.speed = 1.  The speed slider, whose range is set by the page and not
\* by the scripts, is held at this value.
speed == 1

\* Faulty variant of nextIndex: the batch writes the generation it reads.
nextIndexSame == currIndex

\* get nextIndex() { return (this._currIndex + 1) % 2; }
nextIndex == (currIndex + 1) % 2

\* The arrays pos and vel that Particles.reset fills from Math.random().
ResetPos(nb, draws) ==
  [i \in 1 .. nb |->
     <<RDiv((2 * draws[4 * i - 3] - RandDen) * WORLD_SIZE[1], 2 * RandDen),
       RDiv((2 * draws[4 * i - 2] - RandDen) * WORLD_SIZE[2], 2 * RandDen)>>]

ResetVel(nb, draws) ==
  [i \in 1 .. nb |->
     <<RDiv((2 * draws[4 * i - 1] - RandDen) * MAX_SPEED, RandDen),
       RDiv((2 * draws[4 * i] - RandDen) * MAX_SPEED, RandDen)>>]

\* The static texture after the strokes of the ObstacleMap constructor.
RECURSIVE StrokesFrom(_, _, _)
StrokesFrom(tex, k, rule) ==
  IF k > Len(ConstructorStrokes) THEN tex
  ELSE StrokesFrom(AddStaticRaster(tex, ConstructorStrokes[k][2],
                                   ConstructorStrokes[k][1], rule), k + 1, rule)

\* The state main() leaves: the three constructors, then Controls.bind, whose
\* bindInput calls push the initial value of every slider into the core
\* (updateAmount resets the particles, updateBrushSize and updateGravity set
\* the uniforms).
Init ==
  /\ \E k \in 1 .. Len(Sizes) :
       /\ nbParts = Sizes[k]
       /\ posVBO = [g \in 0 .. 1 |-> ResetPos(Sizes[k], MathRandom[k])]
       /\ velVBO = [g \in 0 .. 1 |-> ResetVel(Sizes[k], MathRandom[k])]
  /\ currIndex = 0
  /\ twin = [posVBO |-> posVBO, velVBO |-> velVBO, currIndex |-> 1]
  /\ uAcceleration \in {<<0, -g>> : g \in GravityValues}
  /\ uDt = 0
  /\ fillRule \in BOOLEAN
  /\ staticTexture = StrokesFrom(initTexture, 1, fillRule)
  /\ LET last == ConstructorStrokes[Len(ConstructorStrokes)]
     IN  /\ texture = AddMobileRaster(staticTexture, last[2], last[1])
         /\ uMousePosStatic = last[2]
         /\ uMousePosMobile = last[2]
  /\ uBrushSize \in BrushValues
  /\ isMouseDown = FALSE
  /\ lastUpdate = 0
  /\ fluidMode = TRUE
  /\ frameLog = <<>>
  /\ lastOp = "init"
  /\ frames = 0
  /\ events = 0
  /\ FluidifyConstructor
  /\ roundTrip = [n |-> <<0, 0>>, texel |-> initTexture[1], decoded |-> Decoded(initTexture[1])]
  /\ shaderCall = ShaderFromString(TRUE, TRUE, TRUE, TRUE)
  /\ \E markup \in ClassNames : className = showFluidSection(markup, TRUE)

-----------------------------------------------------------------------------
(* Particles.                                                               *)

Pass(op, read, write) == [op |-> op, read |-> read, write |-> write]

Gen(i) == IF i = 0 THEN "gen0" ELSE "gen1"

\* Faulty variant of the buffer allocation of reset: only generation 0 gets
\* the fresh array.
FreshBuffersFirstOnly(old, arr) == [g \in 0 .. 1 |-> IF g = 0 THEN arr ELSE old[g]]

\* The loop of reset over i = 0, 1: bufferData gives each generation's new
\* buffer the array arr; the buffers `old` are dropped.
FreshBuffers(old, arr) == [g \in 0 .. 1 |-> arr]

\* reset(gl, nb) on the twin object.
TwinReset(nb, draws) ==
  twin' = [twin EXCEPT !.posVBO = FreshBuffers(twin.posVBO, ResetPos(nb, draws)),
                       !.velVBO = FreshBuffers(twin.velVBO, ResetVel(nb, draws))]

\* update(gl, obstacleMap, dt) on the twin object, with uDt = t.
TwinUpdate(t) ==
  LET srcIndex == twin.currIndex
      dstIndex == (twin.currIndex + 1) % 2
      n  == Len(twin.posVBO[srcIndex])
      nv == [i \in 1 .. n |->
               NextVel(texture, twin.posVBO[srcIndex][i], twin.velVBO[srcIndex][i],
                       uAcceleration, t)]
  IN  twin' = [posVBO |-> [twin.posVBO EXCEPT ![dstIndex] =
                             [i \in 1 .. n |->
                                NextPos(texture, twin.posVBO[srcIndex][i],
                                        twin.velVBO[srcIndex][i], nv[i], t)]],
               velVBO |-> [twin.velVBO EXCEPT ![dstIndex] = nv],
               currIndex |-> dstIndex]

\* Faulty variant of update: a batch that reinjects a particle writes one
\* slot less.
ParticlesUpdateDropsSlot(dt) ==
  LET srcIndex == currIndex
      dstIndex == nextIndex
      t == speed * dt
      n == IF \E i \in 1 .. nbParts : Reinjected(posVBO[srcIndex][i])
             THEN nbParts - 1 ELSE nbParts
      nv == [i \in 1 .. n |->
               NextVel(texture, posVBO[srcIndex][i], velVBO[srcIndex][i],
                       uAcceleration, t)]
  IN  /\ uDt' = t
      /\ velVBO' = [velVBO EXCEPT ![dstIndex] = nv]
      /\ posVBO' = [posVBO EXCEPT ![dstIndex] =
                      [i \in 1 .. n |->
                         NextPos(texture, posVBO[srcIndex][i], velVBO[srcIndex][i],
                                 nv[i], t)]]
      /\ currIndex' = nextIndex
      /\ TwinUpdate(t)
      /\ UNCHANGED nbParts

\* Faulty variant of update: an ObstacleMap.reset lands inside the batch, so
\* the particles after the first sample the emptied field.
ParticlesUpdateTorn(dt) ==
  LET srcIndex == currIndex
      dstIndex == nextIndex
      t == speed * dt
      field(i) == IF i = 1 THEN texture ELSE initTexture
      nv == [i \in 1 .. nbParts |->
               NextVel(field(i), posVBO[srcIndex][i], velVBO[srcIndex][i],
                       uAcceleration, t)]
  IN  /\ uDt' = t
      /\ velVBO' = [velVBO EXCEPT ![dstIndex] = nv]
      /\ posVBO' = [posVBO EXCEPT ![dstIndex] =
                      [i \in 1 .. nbParts |->
                         NextPos(field(i), posVBO[srcIndex][i], velVBO[srcIndex][i],
                                 nv[i], t)]]
      /\ currIndex' = nextIndex
      /\ TwinUpdate(t)
      /\ UNCHANGED nbParts

\* Particles.update(gl, obstacleMap, dt): one transform-feedback batch from
\* generation srcIndex into generation dstIndex, then switchBuffers().
ParticlesUpdate(dt) ==
  LET srcIndex == currIndex
      dstIndex == nextIndex
      t == speed * dt
      nv == [i \in 1 .. nbParts |->
               NextVel(texture, posVBO[srcIndex][i], velVBO[srcIndex][i],
                       uAcceleration, t)]
  IN  /\ uDt' = t
      /\ velVBO' = [velVBO EXCEPT ![dstIndex] = nv]
      /\ posVBO' = [posVBO EXCEPT ![dstIndex] =
                      [i \in 1 .. nbParts |->
                         NextPos(texture, posVBO[srcIndex][i], velVBO[srcIndex][i],
                                 nv[i], t)]]
      /\ currIndex' = nextIndex
      /\ TwinUpdate(t)
      /\ UNCHANGED nbParts

UpdatePass == Pass("Particles.update", Gen(currIndex), Gen(nextIndex))

\* Particles.draw(gl): rasterizes generation currIndex into the bound target.
DrawPass(index, target) == Pass("Particles.draw", Gen(index), target)

\* Faulty variant of reset: the generation index is put back to 0.
ParticlesResetRewinds(nb, draws) ==
  /\ nbParts' = nb
  /\ posVBO' = FreshBuffers(posVBO, ResetPos(nb, draws))
  /\ velVBO' = FreshBuffers(velVBO, ResetVel(nb, draws))
  /\ TwinReset(nb, draws)
  /\ currIndex' = 0
  /\ UNCHANGED uDt

\* Particles.reset(gl, nb): both generations are filled with the same fresh
\* arrays; _currIndex is not assigned.
ParticlesReset(nb, draws) ==
  /\ nbParts' = nb
  /\ posVBO' = FreshBuffers(posVBO, ResetPos(nb, draws))
  /\ velVBO' = FreshBuffers(velVBO, ResetVel(nb, draws))
  /\ TwinReset(nb, draws)
  /\ UNCHANGED <<currIndex, uDt>>

-----------------------------------------------------------------------------
(* ObstacleMap.                                                             *)

\* ObstacleMap.setMobileObstacle(gl, x, y) over the static layer `static`.
setMobileObstacle(static, m) ==
  /\ uMousePosMobile' = m
  /\ texture' = AddMobileRaster(static, m, uBrushSize)

\* Faulty variant of addStaticObstacle: the stroke goes to the static texture
\* only, the queryable texture is not redrawn.
addStaticObstacleStaticOnly(m) ==
  /\ uMousePosStatic' = m
  /\ staticTexture' = AddStaticRaster(staticTexture, m, uBrushSize, fillRule)
  /\ UNCHANGED <<texture, uMousePosMobile>>

\* ObstacleMap.addStaticObstacle(gl, x, y), its call of setMobileObstacle
\* included.
addStaticObstacle(m) ==
  /\ uMousePosStatic' = m
  /\ staticTexture' = AddStaticRaster(staticTexture, m, uBrushSize, fillRule)
  /\ setMobileObstacle(staticTexture', m)

-----------------------------------------------------------------------------
(* The frame loop and the handlers of Controls.                             *)

\* Faulty variant of the frame: Fluidify.draw runs before the blur passes.
FrameDrawsUnblurred(delta) ==
  /\ frames < MaxFrames
  /\ frames' = frames + 1
  /\ lastUpdate' = lastUpdate + delta
  /\ ParticlesUpdate(Min(delta, 100))
  /\ frameLog' =
       IF fluidMode
         THEN <<UpdatePass,
                DrawPass(currIndex', "rawTex"),
                Pass("Fluidify.draw", "blurredTex", "screen"),
                Pass("Fluidify.process", "rawTex", "halfBlurredTex"),
                Pass("Fluidify.process", "halfBlurredTex", "blurredTex"),
                Pass("ObstacleMap.draw", "texture", "screen")>>
         ELSE <<UpdatePass,
                DrawPass(currIndex', "screen"),
                Pass("ObstacleMap.draw", "texture", "screen")>>
  /\ lastOp' = "frame"
  /\ UNCHANGED <<uAcceleration, obstacleVars, uBrushSize, fillRule, isMouseDown,
                 fluidMode, events, fluidVars, roundTrip, shaderCall, className>>

\* Faulty variant of the frame: the particles are rasterized before the
\* update, from the generation the update is about to read.
FrameDrawsFirst(delta) ==
  /\ frames < MaxFrames
  /\ frames' = frames + 1
  /\ lastUpdate' = lastUpdate + delta
  /\ ParticlesUpdate(Min(delta, 100))
  /\ frameLog' =
       IF fluidMode
         THEN <<DrawPass(currIndex, "rawTex"),
                UpdatePass,
                Pass("Fluidify.process", "rawTex", "halfBlurredTex"),
                Pass("Fluidify.process", "halfBlurredTex", "blurredTex"),
                Pass("Fluidify.draw", "blurredTex", "screen"),
                Pass("ObstacleMap.draw", "texture", "screen")>>
         ELSE <<DrawPass(currIndex, "screen"),
                UpdatePass,
                Pass("ObstacleMap.draw", "texture", "screen")>>
  /\ lastOp' = "frame"
  /\ UNCHANGED <<uAcceleration, obstacleVars, uBrushSize, fillRule, isMouseDown,
                 fluidMode, events, fluidVars, roundTrip, shaderCall, className>>

\* Faulty variant of the frame: the elapsed time is not clamped.
FrameNoClamp(delta) ==
  /\ frames < MaxFrames
  /\ frames' = frames + 1
  /\ lastUpdate' = lastUpdate + delta
  /\ ParticlesUpdate(delta)
  /\ frameLog' =
       IF fluidMode
         THEN <<UpdatePass,
                DrawPass(currIndex', "rawTex"),
                Pass("Fluidify.process", "rawTex", "halfBlurredTex"),
                Pass("Fluidify.process", "halfBlurredTex", "blurredTex"),
                Pass("Fluidify.draw", "blurredTex", "screen"),
                Pass("ObstacleMap.draw", "texture", "screen")>>
         ELSE <<UpdatePass,
                DrawPass(currIndex', "screen"),
                Pass("ObstacleMap.draw", "texture", "screen")>>
  /\ lastOp' = "frame"
  /\ UNCHANGED <<uAcceleration, obstacleVars, uBrushSize, fillRule, isMouseDown,
                 fluidMode, events, fluidVars, roundTrip, shaderCall, className>>

\* mainLoop(time): time is delta milliseconds after the previous callback.
Frame(delta) ==
  /\ frames < MaxFrames
  /\ frames' = frames + 1
  /\ lastUpdate' = lastUpdate + delta
  /\ ParticlesUpdate(Min(delta, 100))
  /\ frameLog' =
       IF fluidMode
         THEN <<UpdatePass,
                DrawPass(currIndex', "rawTex"),
                Pass("Fluidify.process", "rawTex", "halfBlurredTex"),
                Pass("Fluidify.process", "halfBlurredTex", "blurredTex"),
                Pass("Fluidify.draw", "blurredTex", "screen"),
                Pass("ObstacleMap.draw", "texture", "screen")>>
         ELSE <<UpdatePass,
                DrawPass(currIndex', "screen"),
                Pass("ObstacleMap.draw", "texture", "screen")>>
  /\ lastOp' = "frame"
  /\ UNCHANGED <<uAcceleration, obstacleVars, uBrushSize, fillRule, isMouseDown,
                 fluidMode, events, fluidVars, roundTrip, shaderCall, className>>

Event(name) ==
  /\ events < MaxEvents
  /\ events' = events + 1
  /\ lastOp' = name
  /\ UNCHANGED <<fillRule, lastUpdate, frameLog, frames>>

\* Faulty variant of mouseMove: the stroke is committed whatever the button.
mouseMoveCommits(m) == addStaticObstacle(m)

\* mouseMove(event): the pointer at m.  With the button down the texture
\* written by the handler's first call, setMobileObstacle, is written again
\* by the setMobileObstacle call inside addStaticObstacle.
mouseMove(m) ==
  IF isMouseDown
    THEN addStaticObstacle(m)
    ELSE /\ setMobileObstacle(staticTexture, m)
         /\ UNCHANGED <<staticTexture, uMousePosStatic>>

MouseMove(m) ==
  /\ Event(IF isMouseDown THEN "addStaticObstacle" ELSE "setMobileObstacle")
  /\ mouseMove(m)
  /\ UNCHANGED <<particleVars, uAcceleration, uBrushSize, isMouseDown, fluidMode, fluidVars, roundTrip, shaderCall, className>>

\* canvas mousedown: isMouseDown = true; mouseMove(event).
MouseDown(m) ==
  /\ Event("addStaticObstacle")
  /\ isMouseDown' = TRUE
  /\ addStaticObstacle(m)
  /\ UNCHANGED <<particleVars, uAcceleration, uBrushSize, fluidMode, fluidVars, roundTrip, shaderCall, className>>

\* body mouseup: isMouseDown = false.
MouseUp ==
  /\ isMouseDown
  /\ Event("mouseup")
  /\ isMouseDown' = FALSE
  /\ UNCHANGED <<particleVars, uAcceleration, obstacleVars, uBrushSize, fluidMode, fluidVars, roundTrip, shaderCall, className>>

\* Faulty variant of the reset: only the static texture is replaced.
ObstaclesResetStaticOnly ==
  /\ Event("ObstacleMap.reset")
  /\ staticTexture' = initTexture
  /\ UNCHANGED <<particleVars, uAcceleration, texture, uMousePosStatic, uMousePosMobile,
                 uBrushSize, isMouseDown, fluidMode, fluidVars, roundTrip, shaderCall, className>>

\* reset-button click: ObstacleMap.reset(gl).
ObstaclesReset ==
  /\ Event("ObstacleMap.reset")
  /\ staticTexture' = initTexture
  /\ texture' = initTexture
  /\ UNCHANGED <<particleVars, uAcceleration, uMousePosStatic, uMousePosMobile,
                 uBrushSize, isMouseDown, fluidMode, fluidVars, roundTrip, shaderCall, className>>

\* brushsize-slider input: updateBrushSize.
UpdateBrushSize(b) ==
  /\ b # uBrushSize
  /\ Event("brushSize")
  /\ uBrushSize' = b
  /\ UNCHANGED <<particleVars, uAcceleration, obstacleVars, isMouseDown, fluidMode, fluidVars, roundTrip, shaderCall, className>>

\* amount-slider change: updateAmount.
UpdateAmount(k) ==
  /\ Event("Particles.reset")
  /\ ParticlesReset(Sizes[k], MathRandom[k])
  /\ UNCHANGED <<uAcceleration, obstacleVars, uBrushSize, isMouseDown, fluidMode, fluidVars, roundTrip, shaderCall, className>>

\* gravity-slider input: updateGravity.
UpdateGravity(g) ==
  /\ <<0, -g>> # uAcceleration
  /\ Event("acceleration")
  /\ uAcceleration' = <<0, -g>>
  /\ UNCHANGED <<particleVars, obstacleVars, uBrushSize, isMouseDown, fluidMode, fluidVars, roundTrip, shaderCall, className>>

\* point-mode-button / fluid-mode-button click: setMode(fluid) calls
\* showFluidSection(fluid), then setFluidMode(fluid), which main has replaced
\* by a function that assigns fluidMode and calls showFluidSection again.
SetMode(fluid) ==
  /\ Event(IF fluid THEN "fluid-mode-button" ELSE "point-mode-button")
  /\ fluidMode' = fluid
  /\ className' = showFluidSection(showFluidSection(className, fluid), fluid)
  /\ UNCHANGED <<particleVars, uAcceleration, obstacleVars, uBrushSize, isMouseDown,
               fluidVars, roundTrip, shaderCall>>

\* blur-slider input: updateBlur.
UpdateBlur(kernelSize) ==
  /\ Event("setKernelSize")
  /\ shaderCall' = ShaderFromString(TRUE, TRUE, TRUE, TRUE)
  /\ uKernel' = Kernel(kernelSize)
  /\ UNCHANGED <<particleVars, uAcceleration, obstacleVars, uBrushSize, isMouseDown,
                 fluidMode, uThreshold, uShowNormals, uSpecular, blurredQuad, fragColor,
                 roundTrip, className>>

\* blur-threshold-slider input: updateThreshold.
UpdateThreshold(value) ==
  /\ Event("threshold")
  /\ uThreshold' = value
  /\ UNCHANGED <<particleVars, uAcceleration, obstacleVars, uBrushSize, isMouseDown,
                 fluidMode, uKernel, uShowNormals, uSpecular, blurredQuad, fragColor,
                 roundTrip, shaderCall, className>>

\* water-normals-checkbox change: setWaterNormals.
SetWaterNormals(value) ==
  /\ Event("showNormals")
  /\ uShowNormals' = value
  /\ UNCHANGED <<particleVars, uAcceleration, obstacleVars, uBrushSize, isMouseDown,
                 fluidMode, uKernel, uThreshold, uSpecular, blurredQuad, fragColor,
                 roundTrip, shaderCall, className>>

\* specular-checkbox change: updateSpecular.
UpdateSpecular(value) ==
  /\ Event("specular")
  /\ uSpecular' = value
  /\ UNCHANGED <<particleVars, uAcceleration, obstacleVars, uBrushSize, isMouseDown,
                 fluidMode, uKernel, uThreshold, uShowNormals, blurredQuad, fragColor,
                 roundTrip, shaderCall, className>>

Next ==
  \/ \E delta \in FrameDeltas : Frame(delta)
  \/ \E m \in PointerPositions : MouseMove(m)
  \/ \E m \in PointerPositions : MouseDown(m)
  \/ MouseUp
  \/ ObstaclesReset
  \/ \E b \in BrushValues : UpdateBrushSize(b)
  \/ \E k \in 1 .. Len(Sizes) : UpdateAmount(k)
  \/ \E g \in GravityValues : UpdateGravity(g)
  \/ \E fluid \in BOOLEAN : SetMode(fluid)
  \/ \E kernelSize \in KernelSizes : UpdateBlur(kernelSize)
  \/ \E value \in ThresholdValues : UpdateThreshold(value)
  \/ \E value \in BOOLEAN : SetWaterNormals(value)
  \/ \E value \in BOOLEAN : UpdateSpecular(value)

\* The whole program: every handler, interleaved with the frames.
Spec == Init /\ [][Next]_vars

\* The handlers that write the particle state (the obstacle textures are
\* written by none of them).
NextParticles ==
  \/ \E delta \in FrameDeltas : Frame(delta)
  \/ \E k \in 1 .. Len(Sizes) : UpdateAmount(k)
  \/ \E g \in GravityValues : UpdateGravity(g)
  \/ \E fluid \in BOOLEAN : SetMode(fluid)

SpecParticles == Init /\ [][NextParticles]_vars

\* The handlers that write the obstacle textures (the particle state is
\* written by none of them).
NextObstacles ==
  \/ \E m \in PointerPositions : MouseMove(m)
  \/ \E m \in PointerPositions : MouseDown(m)
  \/ MouseUp
  \/ ObstaclesReset
  \/ \E b \in BrushValues : UpdateBrushSize(b)

SpecObstacles == Init /\ [][NextObstacles]_vars

\* The frames interleaved with the handlers that edit the obstacle field.
NextEdits ==
  \/ \E delta \in FrameDeltas : Frame(delta)
  \/ \E m \in PointerPositions : MouseMove(m)
  \/ \E m \in PointerPositions : MouseDown(m)
  \/ MouseUp
  \/ ObstaclesReset

\* The constructed program with the larger particle count.
InitEdits ==
  /\ Init
  /\ nbParts = Sizes[Len(Sizes)]
  /\ fillRule
  /\ className = <<"controls-section">>

SpecEdits == InitEdits /\ [][NextEdits]_vars

-----------------------------------------------------------------------------
(* The update shader on arbitrary inputs: one particle with any position in *)
(* the bandwidth, any velocity, over several obstacle fields, stepped with  *)
(* uDt from 0 to 0.3 s: any dt in [0, 0.1] at a speed multiplier up to 3.   *)

ShaderXs ==
  {-(POS_BANDWIDTH \div 2), -(WORLD_SIZE[1] \div 2), -150, 0, 130, POS_BANDWIDTH \div 2}
ShaderYs ==
  {-(WORLD_SIZE[2] \div 2) - 25, -(WORLD_SIZE[2] \div 2), -100, 50, WORLD_SIZE[2] \div 2}
ShaderVs == {-2 * MAX_SPEED, -MAX_SPEED, -7, 0, 20, MAX_SPEED}

ShaderFields ==
  {initTexture, AddMobileRaster(StrokesFrom(initTexture, 1, TRUE), <<20 * Width, 50 * Height>>, 30)}
    \cup {AddMobileRaster(initTexture, m, 3) : m \in PointerPositions}

InitShader ==
  /\ nbParts = 1
  /\ \E x \in ShaderXs, y \in ShaderYs, vx \in ShaderVs, vy \in ShaderVs :
       /\ posVBO = [g \in 0 .. 1 |-> << <<x, y>> >>]
       /\ velVBO = [g \in 0 .. 1 |-> << <<vx, vy>> >>]
  /\ currIndex = 0
  /\ twin = [posVBO |-> posVBO, velVBO |-> velVBO, currIndex |-> 1]
  /\ uAcceleration \in {<<0, -g>> : g \in GravityValues}
  /\ uDt = 0
  /\ fillRule = TRUE
  /\ staticTexture \in ShaderFields
  /\ texture = staticTexture
  /\ uMousePosStatic = <<0, 0>>
  /\ uMousePosMobile = <<0, 0>>
  /\ uBrushSize \in {2}
  /\ isMouseDown = FALSE
  /\ lastUpdate = 0
  /\ fluidMode = TRUE
  /\ frameLog = <<>>
  /\ lastOp = "init"
  /\ frames = 0
  /\ events = 0
  /\ FluidifyConstructor
  /\ roundTrip = [n |-> <<0, 0>>, texel |-> initTexture[1], decoded |-> Decoded(initTexture[1])]
  /\ shaderCall = ShaderFromString(TRUE, TRUE, TRUE, TRUE)
  /\ className = showFluidSection(<<"controls-section">>, TRUE)

\* One run of Particles.update with uDt = dt.
ShaderStep(dt) ==
  /\ frames < MaxShaderSteps
  /\ frames' = frames + 1
  /\ ParticlesUpdate(dt)
  /\ frameLog' = <<UpdatePass>>
  /\ lastOp' = "frame"
  /\ UNCHANGED <<uAcceleration, obstacleVars, uBrushSize, fillRule, isMouseDown,
                 lastUpdate, fluidMode, events, fluidVars, roundTrip, shaderCall, className>>

NextShader == \E dt \in DtValues : ShaderStep(dt)

SpecShader == InitShader /\ [][NextShader]_vars

-----------------------------------------------------------------------------
(* The display stage on arbitrary inputs: one fragment of Fluidify.draw over *)
(* a blurred texel of any alpha, its right and upper neighbours giving the   *)
(* derivatives, under every setting of the rendering controls.               *)

InitOne ==
  /\ Init
  /\ nbParts = Sizes[1]
  /\ uAcceleration = <<0, 0>>
  /\ fillRule
  /\ uBrushSize = 2
  /\ className = <<"controls-section">>

\* Fluidify.draw at one fragment whose blurred texel and neighbours are quad.
FluidifyDraw(quad) ==
  /\ blurredQuad' = quad
  /\ fragColor' = displayFrag(quad, uThreshold, uShowNormals, uSpecular)
  /\ lastOp' = "Fluidify.draw"
  /\ UNCHANGED <<particleVars, uAcceleration, obstacleVars, uBrushSize, isMouseDown,
                 fluidMode, uKernel, uThreshold, uShowNormals, uSpecular,
                 fillRule, lastUpdate, frameLog, frames, events, roundTrip, shaderCall, className>>

Quads ==
  {<<TexelColor \o <<a>>, r, u>> : a \in AlphaValues, r \in NeighbourAlphas,
                                   u \in NeighbourAlphas}

NextFluidify ==
  \/ \E quad \in Quads : FluidifyDraw(quad)
  \/ \E kernelSize \in KernelSizes : UpdateBlur(kernelSize)
  \/ \E value \in ThresholdValues : UpdateThreshold(value)
  \/ \E value \in BOOLEAN : SetWaterNormals(value)
  \/ \E value \in BOOLEAN : UpdateSpecular(value)

SpecFluidify == InitOne /\ [][NextFluidify]_vars

-----------------------------------------------------------------------------
(* The obstacle encoding on arbitrary inputs: a vector with components in    *)
(* [-1, 1] written to an RG8 texel by the obstacle shaders and decoded by    *)
(* the update shader, and the texel initTexture stores for "no obstacle".    *)

\* Every multiple of 1/NormDen in [-1, 1], in the first channel and, negated,
\* in the second.
NormalValues == {<<v, -v>> : v \in -NormDen .. NormDen}

EncodeDecode(n) ==
  /\ roundTrip' = [n |-> n, texel |-> Encode(n), decoded |-> Decoded(Encode(n))]
  /\ lastOp' = "encode"
  /\ UNCHANGED <<particleVars, uAcceleration, obstacleVars, uBrushSize, isMouseDown,
                 fluidMode, fluidVars, fillRule, lastUpdate, frameLog, frames, events,
                 shaderCall, className>>

\* The texel of the empty field, which stands for the zero vector.
InitDecode ==
  /\ roundTrip' = [n |-> <<0, 0>>, texel |-> initTexture[1],
                   decoded |-> Decoded(initTexture[1])]
  /\ lastOp' = "initTexture"
  /\ UNCHANGED <<particleVars, uAcceleration, obstacleVars, uBrushSize, isMouseDown,
                 fluidMode, fluidVars, fillRule, lastUpdate, frameLog, frames, events,
                 shaderCall, className>>

NextEncoding ==
  \/ \E n \in NormalValues : EncodeDecode(n)
  \/ InitDecode

SpecEncoding == InitOne /\ [][NextEncoding]_vars

-----------------------------------------------------------------------------
(* Shader creation from sources of any validity, between the handlers of the *)
(* rendering controls (of which updateBlur creates the blur shader from the  *)
(* shipped source).                                                          *)

fromString(vertexOk, fragmentOk, linkStatus, attachThrows) ==
  /\ shaderCall' = ShaderFromString(vertexOk, fragmentOk, linkStatus, attachThrows)
  /\ lastOp' = "fromString"
  /\ UNCHANGED <<particleVars, uAcceleration, obstacleVars, uBrushSize, isMouseDown,
                 fluidMode, fluidVars, fillRule, lastUpdate, frameLog, frames, events,
                 roundTrip, className>>

NextShaders ==
  \/ \E vertexOk, fragmentOk, linkStatus, attachThrows \in BOOLEAN :
       fromString(vertexOk, fragmentOk, linkStatus, attachThrows)
  \/ \E kernelSize \in KernelSizes : UpdateBlur(kernelSize)
  \/ \E value \in ThresholdValues : UpdateThreshold(value)
  \/ \E value \in BOOLEAN : SetWaterNormals(value)
  \/ \E value \in BOOLEAN : UpdateSpecular(value)

SpecShaders == InitOne /\ [][NextShaders]_vars


-----------------------------------------------------------------------------
(* Properties.  After a step the generation just read is still in the       *)
(* buffers of index 1 - currIndex, so a state reached by a step shows the   *)
(* input and the output of the shader for every particle.                   *)

Particle == 1 .. nbParts
prevIndex == 1 - currIndex
AfterStep == lastOp = "frame"

prevPos(i) == posVBO[prevIndex][i]
prevVel(i) == velVBO[prevIndex][i]
curPos(i) == posVBO[currIndex][i]
curVel(i) == velVBO[currIndex][i]

\* The velocity entering the collision stage and the normal sampled at the
\* particle's position, for the step that led to this state.
preCollision(i) == VelStart(prevPos(i), prevVel(i), uAcceleration, uDt)
normalAt(i) == decodeObstacle(texture, prevPos(i))
Bounces(i) == IsObstacle(normalAt(i)) /\ Dot(preCollision(i), normalAt(i)) < 0

SpeedAtMost(v, limit) == Length(v) <= limit + Tol

\* C1: after Particles.update every velocity written to the next generation
\* has magnitude at most MAX_SPEED (within the rounding tolerance), whatever
\* the particle's position and velocity, the obstacle field, the acceleration
\* and dt in [0, 0.1].
C1_SpeedClamp ==
  AfterStep => \A i \in Particle : SpeedAtMost(curVel(i), MAX_SPEED)

\* A step in which the clamp acted: the velocity before it was above
\* MAX_SPEED.
C1_Witness ==
  /\ AfterStep
  /\ \E i \in Particle :
       /\ ~SpeedAtMost(Collide(preCollision(i), normalAt(i)), MAX_SPEED)
       /\ SpeedAtMost(curVel(i), MAX_SPEED)
       /\ curVel(i) # <<0, 0>>

InBand(p) == -POS_BANDWIDTH <= 2 * p[1] /\ 2 * p[1] <= POS_BANDWIDTH

\* C3: the x written by a step lies in [-0.5*bandwidth, 0.5*bandwidth], so
\* every particle's x stays within the bandwidth through any sequence of steps.
C3_WrapClosure == \A i \in Particle : InBand(curPos(i))

\* A step whose position left the bandwidth before the wrap correction.
C3_Witness ==
  /\ AfterStep
  /\ \E i \in Particle :
       /\ ~InBand(Respawn(prevPos(i), prevVel(i),
                          Moved(texture, prevPos(i), curVel(i), uDt)))
       /\ InBand(curPos(i))

\* C4: a particle that meets an obstacle (dot(n,n) > 0.1) while moving into
\* it (dot(nextVel,n) < 0) leaves the collision stage with a velocity v' that
\* does not point into the obstacle (dot(v',n) >= 0) and is at most
\* 0.1*MAX_SPEED, both within the rounding tolerance, and the global clamp
\* leaves it as it is; for any other
\* particle the collision stage changes nothing, and the velocity written is
\* the clamped pre-collision velocity.
C4_Bounce ==
  AfterStep =>
    \A i \in Particle :
      IF Bounces(i)
        THEN /\ Dot(curVel(i), normalAt(i)) + Tol * Length(normalAt(i)) >= 0
             /\ 10 * Length(curVel(i)) <= MAX_SPEED + 10 * Tol
        ELSE curVel(i) = ClampSpeed(preCollision(i))

\* A bounce that turned a fast incoming particle around.
C4_Witness ==
  /\ AfterStep
  /\ \E i \in Particle :
       /\ Bounces(i)
       /\ ~SpeedAtMost(preCollision(i), MAX_SPEED)
       /\ Dot(curVel(i), normalAt(i)) > 0


\* C2, as claimed: a particle below the bottom edge before a step is, after
\* it, above the top edge (y > 0.5*domainHeight) with |x| <= 0.5*domainWidth.
C2_Reinjection ==
  AfterStep =>
    \A i \in Particle :
      Reinjected(prevPos(i)) =>
        /\ 2 * curPos(i)[2] > WORLD_SIZE[2]
        /\ Abs(2 * curPos(i)[1]) <= WORLD_SIZE[1]

\* C5: the generation index is 0 or 1; a step reads the generation of the
\* current index and writes the other one, positions and velocities both,
\* and one flip of the index makes the written generation current: after the
\* step the buffers of the previous index still hold the input and those of
\* the current index the shader's output; the frame's draw reads the
\* current generation.
C5_DoubleBuffering ==
  /\ currIndex \in {0, 1}
  /\ AfterStep =>
       /\ frameLog[1].op = "Particles.update"
       /\ frameLog[1].read = Gen(prevIndex)
       /\ frameLog[1].write = Gen(currIndex)
       /\ frameLog[1].read # frameLog[1].write
       /\ frameLog[2].op = "Particles.draw"
       /\ frameLog[2].read = Gen(currIndex)
       /\ \A i \in Particle :
            /\ curVel(i) = NextVel(texture, prevPos(i), prevVel(i), uAcceleration, uDt)
            /\ curPos(i) = NextPos(texture, prevPos(i), prevVel(i), curVel(i), uDt)

\* The second step of a run: the index is back at 0 and the generations differ.
C5_Witness ==
  /\ AfterStep
  /\ frames = 2
  /\ currIndex = 0
  /\ posVBO[0] # posVBO[1]
  /\ velVBO[0] # velVBO[1]

\* C6, as claimed: after every reset the generation index is 0.
C6_ResetIndexZero == lastOp = "Particles.reset" => currIndex = 0

\* C6, amended: reset fills both generations with the same arrays and leaves
\* the generation index as it is, so the index (0 after construction) is the
\* parity of the number of steps run, whatever resets happened in between.
C6_ResetKeepsIndex ==
  /\ currIndex = frames % 2
  /\ lastOp = "Particles.reset" =>
       /\ posVBO[0] = posVBO[1]
       /\ velVBO[0] = velVBO[1]
       /\ Len(posVBO[currIndex]) = nbParts

\* A reset after an odd number of steps.
C6_Witness == lastOp = "Particles.reset" /\ currIndex = 1

\* C7: only reset changes the particle count; a step writes exactly
\* nbParticles slots of the next generation, also when it reinjects or
\* bounces particles; after reset(count) the count is `count`.
C7_CountOnlyReset ==
  [][/\ lastOp' # "Particles.reset" => nbParts' = nbParts
     /\ lastOp' = "frame" =>
          /\ Len(posVBO'[currIndex']) = nbParts
          /\ Len(velVBO'[currIndex']) = nbParts
     /\ \A k \in 1 .. Len(Sizes) :
          UpdateAmount(k) =>
            /\ nbParts' = Sizes[k]
            /\ \A g \in 0 .. 1 : Len(posVBO'[g]) = Sizes[k] /\ Len(velVBO'[g]) = Sizes[k]
    ]_vars

\* A step that reinjected a particle and kept the count.
C7_Witness ==
  /\ AfterStep
  /\ \E i \in Particle : Reinjected(prevPos(i))
  /\ Len(posVBO[currIndex]) = nbParts
  /\ nbParts = 2


\* The world position of the centre of pixel p.
CentreOf(p) ==
  <<(Scale * (2 * p[1] + 1 - Width)) \div 2, (Scale * (2 * p[2] + 1 - Height)) \div 2>>

\* n (in 1/255) is the unit vector along f, up to the rounding of the RG8 texel.
Radial(n, f) ==
  \A c \in 1 .. 2 : Abs(n[c] * Length(f) - 255 * f[c]) <= Tol * Length(f) + 255

InsideBrush(f, b) == Dot(f, f) < BrushDen(b) * BrushDen(b)
OutsideBrush(f, b) == Dot(f, f) > BrushDen(b) * BrushDen(b)

\* C8: addStaticObstacle(center) gives every pixel whose centre is inside the
\* brush disc (the disc of diameter brushSize around center) the unit outward
\* radial vector from center, whatever the pixel stored before, and leaves
\* every pixel outside the disc at its previous static value.
C8_StaticOverwrite ==
  [][lastOp' = "addStaticObstacle" =>
       \A k \in 1 .. Width * Height :
         LET f == fromCenter(PixelAt(k), uMousePosStatic')
         IN  /\ InsideBrush(f, uBrushSize) => Radial(Decoded(staticTexture'[k]), f)
             /\ OutsideBrush(f, uBrushSize) => staticTexture'[k] = staticTexture[k]
    ]_vars

\* A stroke over the strokes of the constructor: a pixel inside the disc lost
\* the earlier stroke's vector, a pixel outside still holds it.
C8_Witness ==
  /\ lastOp = "addStaticObstacle"
  /\ LET before == StrokesFrom(initTexture, 1, fillRule)
     IN  /\ \E k \in 1 .. Width * Height :
               /\ InsideBrush(fromCenter(PixelAt(k), uMousePosStatic), uBrushSize)
               /\ staticTexture[k] # before[k]
               /\ before[k] # <<127, 127>>
         /\ \E k \in 1 .. Width * Height :
               /\ OutsideBrush(fromCenter(PixelAt(k), uMousePosStatic), uBrushSize)
               /\ staticTexture[k] = before[k]

\* C9, as claimed: after addStaticObstacle(center) with brush size b, sampling
\* the queryable field at any pixel centre within distance b of center (b
\* taken as the half-extent of the disc, rim included) returns the outward
\* radial normal and passes the obstacle test.
C9_HalfExtentDisc ==
  lastOp = "addStaticObstacle" =>
    \A k \in 1 .. Width * Height :
      LET f == fromCenter(PixelAt(k), uMousePosStatic)
          n == decodeObstacle(texture, CentreOf(PixelAt(k)))
      IN  Dot(f, f) <= 4 * BrushDen(uBrushSize) * BrushDen(uBrushSize) =>
            IsObstacle(n) /\ Radial(n, f)

\* C9, amended: after addStaticObstacle(center) the mobile disc sits at center
\* too, and sampling the queryable field at any pixel centre strictly inside
\* the disc of diameter brushSize (radius brushSize/2) around center returns
\* the outward radial normal there and passes the obstacle test.
C9_QueryableDisc ==
  lastOp = "addStaticObstacle" =>
    /\ uMousePosMobile = uMousePosStatic
    /\ \A k \in 1 .. Width * Height :
         LET f == fromCenter(PixelAt(k), uMousePosStatic)
             n == decodeObstacle(texture, CentreOf(PixelAt(k)))
         IN  InsideBrush(f, uBrushSize) => IsObstacle(n) /\ Radial(n, f)

\* A stroke on the cleared field: inside the disc the field is solid, at a
\* pixel outside it the field is still empty.
C9_Witness ==
  /\ lastOp = "addStaticObstacle"
  /\ \E k \in 1 .. Width * Height :
       /\ InsideBrush(fromCenter(PixelAt(k), uMousePosStatic), uBrushSize)
       /\ IsObstacle(decodeObstacle(texture, CentreOf(PixelAt(k))))
  /\ \E k \in 1 .. Width * Height :
       /\ OutsideBrush(fromCenter(PixelAt(k), uMousePosStatic), uBrushSize)
       /\ ~IsObstacle(decodeObstacle(texture, CentreOf(PixelAt(k))))

\* C10: setMobileObstacle(center) makes the queryable field, pixel by pixel,
\* the disc's outward normal where the pixel centre is inside the brush disc
\* around center and the static layer's value elsewhere; nothing of the field
\* it replaces remains, so a disc left by an earlier call is gone.
C10_MobileOverlay ==
  [][lastOp' \in {"setMobileObstacle", "addStaticObstacle"} =>
       \A k \in 1 .. Width * Height :
         LET f == fromCenter(PixelAt(k), uMousePosMobile')
         IN  IF InsideBrush(f, uBrushSize)
               THEN Radial(Decoded(texture'[k]), f)
               ELSE texture'[k] = staticTexture'[k]
    ]_vars

\* The pointer moved twice with the button up: a pixel of the disc around
\* another pointer position, outside the present disc, holds the static value
\* and not that disc's normal.
C10_Witness ==
  /\ lastOp = "setMobileObstacle"
  /\ events = 2
  /\ \E a \in PointerPositions \ {uMousePosMobile} :
       \E k \in 1 .. Width * Height :
         /\ InsideBrush(fromCenter(PixelAt(k), a), uBrushSize)
         /\ ~InsideBrush(fromCenter(PixelAt(k), uMousePosMobile), uBrushSize)
         /\ texture[k] = staticTexture[k]
         /\ ~Radial(Decoded(texture[k]), fromCenter(PixelAt(k), a))


\* Outside the disc of a brush of b pixels around the last pointer position
\* the queryable texture holds the static texture's texels.
StaticOutside(b) ==
  \A k \in 1 .. Width * Height :
    ~InsideBrush(fromCenter(PixelAt(k), uMousePosMobile), b) => texture[k] = staticTexture[k]

\* C11, as claimed: in every reachable state every pixel outside the mobile
\* disc (current brush size, last pointer position) has exactly the static
\* layer's value.
C11_OverlayAlways == StaticOutside(uBrushSize)

\* C11, amended: right after addStaticObstacle, setMobileObstacle or reset
\* every pixel outside the disc of the current brush size around the last
\* pointer position has exactly the static layer's value; a brush-size
\* change redraws nothing, so in every state this holds for the disc of one
\* of the brush sizes, the one in force when the field was last drawn.
C11_OverlayAfterDraw ==
  /\ lastOp \in {"addStaticObstacle", "setMobileObstacle", "ObstacleMap.reset"} =>
       StaticOutside(uBrushSize)
  /\ \E b \in BrushValues : StaticOutside(b)

\* The brush was just made smaller: the field still holds the larger disc.
C11_Witness ==
  /\ lastOp = "brushSize"
  /\ ~StaticOutside(uBrushSize)
  /\ \E b \in BrushValues : b > uBrushSize /\ StaticOutside(b)


\* C12, as claimed: after ObstacleMap.reset every pixel of the static layer
\* and of the queryable field decodes to the zero vector and fails the
\* obstacle test.
C12_ResetZeroField ==
  lastOp = "ObstacleMap.reset" =>
    \A k \in 1 .. Width * Height :
      /\ Decoded(staticTexture[k]) = <<0, 0>>
      /\ decodeObstacle(texture, CentreOf(PixelAt(k))) = <<0, 0>>
      /\ ~IsObstacle(decodeObstacle(texture, CentreOf(PixelAt(k))))


\* pos + uDt * nextVel of particle i, before the nudge.
advanced(i) ==
  <<prevPos(i)[1] + RDiv(uDt * curVel(i)[1], 1000),
    prevPos(i)[2] + RDiv(uDt * curVel(i)[2], 1000)>>

StrictlyInside(p) == 2 * Abs(p[1]) < WORLD_SIZE[1] /\ 2 * Abs(p[2]) < WORLD_SIZE[2]

\* C13, as claimed: with zero acceleration and the empty obstacle field, one
\* step with dt = 0.016 moves every particle strictly inside the domain to
\* its prior position plus dt * velocity (the velocity the step writes) and
\* applies no other displacement: the nudge uDt * obstacleNormal is zero.
C13_FreeFlight ==
  (AfterStep /\ uDt = 16 /\ uAcceleration = <<0, 0>> /\ texture = initTexture) =>
    \A i \in Particle :
      StrictlyInside(prevPos(i)) =>
        LET n == decodeObstacle(texture, advanced(i))
        IN  /\ curPos(i) = advanced(i)
            /\ <<uDt * n[1], uDt * n[2]>> = <<0, 0>>


\* C14: in every frame the update, its generation switch included, comes
\* first and the particles are rasterized from the generation it made
\* current; in fluid mode they are rasterized into the raw buffer, then the
\* horizontal pass (raw to intermediate), then the vertical pass
\* (intermediate to blurred), and only then Fluidify.draw; ObstacleMap.draw
\* is the last pass of the frame in both modes.
C14_FrameSequencing ==
  AfterStep =>
    /\ frameLog[1] = Pass("Particles.update", Gen(prevIndex), Gen(currIndex))
    /\ frameLog[2].op = "Particles.draw"
    /\ frameLog[2].read = Gen(currIndex)
    /\ frameLog[Len(frameLog)].op = "ObstacleMap.draw"
    /\ \A k \in 1 .. Len(frameLog) - 1 : frameLog[k].op # "ObstacleMap.draw"
    /\ IF fluidMode
         THEN /\ Len(frameLog) = 6
              /\ frameLog[2].write = "rawTex"
              /\ frameLog[3] = Pass("Fluidify.process", "rawTex", "halfBlurredTex")
              /\ frameLog[4] = Pass("Fluidify.process", "halfBlurredTex", "blurredTex")
              /\ frameLog[5] = Pass("Fluidify.draw", "blurredTex", "screen")
         ELSE /\ Len(frameLog) = 3
              /\ frameLog[2].write = "screen"

\* A frame in fluid mode after a frame in point mode.
C14_Witness ==
  /\ AfterStep
  /\ fluidMode
  /\ frames = 2
  /\ events = 2
  /\ Len(frameLog) = 6

\* C15: the dt of every frame's Particles.update is the time elapsed since
\* the previous callback (since 0 for the first frame) clamped to 0.1 s, so
\* it never exceeds 0.1 s.
C15_DtClamp ==
  [][lastOp' = "frame" =>
       /\ uDt' = speed * Min(lastUpdate' - lastUpdate, 100)
       /\ uDt' <= speed * 100
    ]_vars

\* The first frame arrives 250 ms after time 0 and is stepped with 0.1 s.
C15_Witness ==
  /\ AfterStep
  /\ frames = 1
  /\ lastUpdate = 250
  /\ uDt = 100

\* C16: a fragment drawn by Fluidify.draw whose blurred alpha is strictly
\* below the threshold has every output channel zero, and a fragment whose
\* alpha is at or above the threshold outputs colour plus specular term.
C16_ThresholdDiscard ==
  lastOp = "Fluidify.draw" =>
    LET a     == blurredQuad[1][4]
        color == ShadedColor(blurredQuad, uThreshold, uShowNormals)
        spec  == Specular(blurredQuad, uThreshold, uSpecular)
    IN  IF 100 * a < 255 * uThreshold
          THEN fragColor = <<0, 0, 0, 0>>
          ELSE fragColor = [c \in 1..4 |-> color[c] + spec[c]]

\* A fragment whose alpha equals a positive threshold (51/255 = 0.2) is drawn.
C16_Witness ==
  /\ lastOp = "Fluidify.draw"
  /\ uThreshold > 0
  /\ 100 * blurredQuad[1][4] = 255 * uThreshold
  /\ fragColor # <<0, 0, 0, 0>>

\* C17: the weights stored in uKernel by setKernelSize(K), K >= 1, are K
\* positive numbers in the proportions exp(-4 x_i^2), x_i = 2 i / K - 1,
\* and sum to 1 within 1e-5.
C17_KernelNormalized ==
  LET K == Len(uKernel)
      e == [i \in 1..K |-> kernelFunction(i - 1, K)]
  IN  /\ K >= 1
      /\ \A i \in 1..K : uKernel[i] > 0
      /\ \A i, j \in 1..K : Abs(uKernel[i] * e[j] - uKernel[j] * e[i]) <= ExpDen
      /\ Abs(SumSeq(uKernel) - WeightDen) <= WeightDen \div 100000

\* The blur slider has stored a kernel of several unequal weights.
C17_Witness ==
  /\ lastOp = "setKernelSize"
  /\ Len(uKernel) \in 3..MaxKernel
  /\ uKernel[1] < uKernel[2]

\* C18: a vector with components in [-1, 1], written to an 8-bit channel as
\* 0.5 n + 0.5 and decoded as 2 texel - 1, comes back within one 8-bit step
\* (1/255) of itself in each component; so does the zero vector through the
\* texel of the empty field.
C18_RoundTrip ==
  \A c \in 1..2 :
    /\ roundTrip.texel[c] \in 0..255
    /\ Abs(NormDen * roundTrip.decoded[c] - 255 * roundTrip.n[c]) <= NormDen

\* A vector that no texel represents exactly has been encoded and decoded.
C18_Witness ==
  /\ lastOp = "encode"
  /\ roundTrip.n[1] \notin {-NormDen, 0, NormDen}
  /\ NormDen * roundTrip.decoded[1] # 255 * roundTrip.n[1]
  /\ roundTrip.decoded = Decoded(roundTrip.texel)

\* C19: a Shader.fromString call whose vertex or fragment source does not
\* compile, or whose program does not link, logs the failure and returns to
\* its caller without raising an exception.
C19_FailureReturns ==
  (~shaderCall.vertex \/ ~shaderCall.fragment \/ ~shaderCall.linked) =>
    /\ shaderCall.logged >= 1
    /\ shaderCall.result # "TypeError"

\* uDt * obstacleNormal for the field sampled at p, in 1/Scale pixels.
nudge(p) ==
  LET n == decodeObstacle(texture, p)
  IN  <<RDiv(uDt * n[1] * Scale, 255 * 1000), RDiv(uDt * n[2] * Scale, 255 * 1000)>>

\* C20, as claimed: a step displaces nextPos = pos + dt * nextVel by
\* dt * normal only where the field sampled at nextPos passes the obstacle
\* test; where it does not, the position is not nudged at all.
C20_ConditionalNudge ==
  AfterStep =>
    \A i \in Particle :
      ~Reinjected(prevPos(i)) =>
        LET p == advanced(i)
            n == decodeObstacle(texture, p)
        IN  IF IsObstacle(n)
              THEN curPos(i) = Wrap(<<p[1] + nudge(p)[1], p[2] + nudge(p)[2]>>)
              ELSE /\ curPos(i) = Wrap(p)
                   /\ <<uDt * n[1], uDt * n[2]>> = <<0, 0>>

\* C21: the static layer is written only during a stroke.  A pointer move
\* with the button up (setMobileObstacle alone) leaves the static layer as it
\* was and redraws the queryable field, which then holds the static value at
\* every pixel outside the disc around the new pointer position, the pixels
\* of the disc around the old position included; and the static layer is
\* never changed while the button is up, except emptied by reset.
C21_CommitOnlyInStroke ==
  [][/\ lastOp' = "setMobileObstacle" =>
          /\ ~isMouseDown
          /\ staticTexture' = staticTexture
          /\ uMousePosStatic' = uMousePosStatic
          /\ \A k \in 1 .. Width * Height :
               ~InsideBrush(fromCenter(PixelAt(k), uMousePosMobile'), uBrushSize) =>
                 texture'[k] = staticTexture[k]
     /\ staticTexture' # staticTexture =>
          \/ isMouseDown' /\ lastOp' = "addStaticObstacle"
          \/ lastOp' = "ObstacleMap.reset" /\ staticTexture' = initTexture
    ]_vars

\* The pointer has moved away with the button up: a pixel of the disc around
\* the last committed position is outside the disc around the pointer and
\* holds its static value, while the pointer's disc differs from the static
\* layer.
C21_Witness ==
  /\ lastOp = "setMobileObstacle"
  /\ ~isMouseDown
  /\ uMousePosMobile # uMousePosStatic
  /\ \E k \in 1 .. Width * Height :
       /\ InsideBrush(fromCenter(PixelAt(k), uMousePosStatic), uBrushSize)
       /\ OutsideBrush(fromCenter(PixelAt(k), uMousePosMobile), uBrushSize)
       /\ texture[k] = staticTexture[k]
  /\ \E k \in 1 .. Width * Height : texture[k] # staticTexture[k]

\* C22: no obstacle edit lands inside a simulation step.  The field is
\* written only by setMobileObstacle, addStaticObstacle and reset, each a
\* step of its own; a frame leaves both layers as they are, and every
\* particle of its update is computed from the one field the frame started
\* with, the field left by the last edit before it.
C22_NoEditDuringStep ==
  [][/\ lastOp' = "frame" =>
          /\ texture' = texture
          /\ staticTexture' = staticTexture
          /\ \A i \in 1 .. nbParts :
               LET nv == NextVel(texture, posVBO[currIndex][i], velVBO[currIndex][i],
                                 uAcceleration, uDt')
               IN  /\ velVBO'[currIndex'][i] = nv
                   /\ posVBO'[currIndex'][i] =
                        NextPos(texture, posVBO[currIndex][i], velVBO[currIndex][i],
                                nv, uDt')
     /\ texture' # texture =>
          lastOp' \in {"setMobileObstacle", "addStaticObstacle", "ObstacleMap.reset"}
    ]_vars

\* A step of two particles over a field that a pointer event has redrawn
\* since construction and that differs from the empty field.
C22_Witness ==
  /\ AfterStep
  /\ nbParts = 2
  /\ uMousePosMobile \in PointerPositions
  /\ texture # initTexture
  /\ texture # staticTexture

\* The operations recorded for the last frame.
FrameOps == {frameLog[k].op : k \in 1 .. Len(frameLog)}

\* C23: the rendering mode follows the last mode button clicked.  The mode
\* is fluid at startup; it changes only by a click and is points after a
\* click on the point-mode button, fluid after a click on the fluid-mode
\* button; a frame in point mode draws the particles to the screen with no
\* process and no Fluidify.draw, a frame in fluid mode runs process and then
\* Fluidify.draw; and the section's className carries "hidden" exactly once
\* in point mode and not at all in fluid mode.
C23_ModeFollowsButton ==
  /\ [](/\ lastOp = "init" => fluidMode
        /\ HiddenCount(className) = IF fluidMode THEN 0 ELSE 1)
  /\ [][/\ lastOp' = "point-mode-button" => ~fluidMode'
        /\ lastOp' = "fluid-mode-button" => fluidMode'
        /\ fluidMode' # fluidMode =>
             lastOp' \in {"point-mode-button", "fluid-mode-button"}
        /\ lastOp' = "frame" =>
             IF fluidMode
               THEN /\ \E k \in 1 .. Len(frameLog') - 1 :
                         /\ frameLog'[k].op = "Fluidify.process"
                         /\ frameLog'[k + 1].op = "Fluidify.draw"
                    /\ frameLog'[2].write # "screen"
               ELSE /\ "Fluidify.process" \notin {frameLog'[k].op : k \in 1 .. Len(frameLog')}
                    /\ "Fluidify.draw" \notin {frameLog'[k].op : k \in 1 .. Len(frameLog')}
                    /\ frameLog'[2] = DrawPass(currIndex', "screen")
       ]_vars

\* A frame in point mode after two clicks, the section's className having
\* been empty in the markup.
C23_Witness ==
  /\ AfterStep
  /\ ~fluidMode
  /\ events = 2
  /\ "Fluidify.draw" \notin FrameOps
  /\ className = <<"", "hidden">>

\* C24: every generation that is rasterized has been produced by a step.
\* Each frame rasterizes the particles once, after its update and from the
\* generation that update wrote, so every particle drawn has speed at most
\* MAX_SPEED (within the rounding tolerance) even when the generation read
\* by the update came from reset with faster particles; and reset itself
\* draws nothing.
C24_DrawnAfterStep ==
  [][/\ lastOp' = "frame" =>
          LET log   == frameLog'
              draws == {k \in 1 .. Len(log) : log[k].op = "Particles.draw"}
          IN  /\ log[1].op = "Particles.update"
              /\ log[1].read = Gen(currIndex)
              /\ log[1].write = Gen(currIndex')
              /\ draws # {}
              /\ \A k \in draws : k > 1 /\ log[k].read = log[1].write
              /\ \A i \in 1 .. nbParts :
                   SpeedAtMost(velVBO'[currIndex'][i], MAX_SPEED)
     /\ lastOp' = "Particles.reset" => frameLog' = frameLog
    ]_vars

\* The second frame of a run follows a reset that gave a particle a speed
\* above MAX_SPEED: the generation it read is the reset state, the one it
\* drew is not.
C24_Witness ==
  /\ AfterStep
  /\ frames = 2
  /\ \E k \in 1 .. Len(Sizes) :
       /\ nbParts = Sizes[k]
       /\ posVBO[prevIndex] = ResetPos(Sizes[k], MathRandom[k])
       /\ velVBO[prevIndex] = ResetVel(Sizes[k], MathRandom[k])
  /\ \E i \in Particle : Length(prevVel(i)) > MAX_SPEED + Tol
  /\ velVBO[currIndex] # velVBO[prevIndex]

\* C25: after Particles.reset(count) both generations hold the same
\* positions and the same velocities, each of length count, so the run does
\* not depend on the value the generation index had at the reset: the
\* object constructed with the other index value, given the same resets and
\* updates, holds the same current generation particle by particle (and the
\* same previous one), only in the other buffer.
C25_IndexIndependence ==
  /\ twin.currIndex = 1 - currIndex
  /\ \A g \in 0 .. 1 :
       /\ twin.posVBO[1 - g] = posVBO[g]
       /\ twin.velVBO[1 - g] = velVBO[g]
  /\ lastOp = "Particles.reset" =>
       /\ posVBO[0] = posVBO[1]
       /\ velVBO[0] = velVBO[1]
       /\ Len(posVBO[0]) = nbParts
       /\ Len(velVBO[0]) = nbParts

\* Two particles reset while the index was 1 (the twin's 0) and stepped
\* once since: both objects draw the same generation, which differs from
\* the reset state.
C25_Witness ==
  /\ AfterStep
  /\ frames = 2
  /\ nbParts = 2
  /\ velVBO[prevIndex] = ResetVel(2, MathRandom[2])
  /\ posVBO[currIndex] = twin.posVBO[twin.currIndex]
  /\ posVBO[currIndex] # posVBO[prevIndex]

=============================================================================
